---- MODULE Spec2Model ----
(***************************************************************************)
(* Model of the MDBQS query federator: the execution engine                *)
(* (services/execution.py), the tool dispatcher (services/mcp_manager.py), *)
(* the planner with its lazy schema catalog (services/planner.py,          *)
(* services/schema_index.py) and the fusion engine (services/fusion.py).   *)
(*                                                                         *)
(* Text is a sequence of atoms: "p1.embedding" is <<"p1", ".", "embedding">>*)
(* and the key "embedding_from" is <<"embedding", "_from">>, so that       *)
(* str.split("."), str.endswith("_from") and key[:-5] are computed.        *)
(* JSON values are tagged records; Python None and JSON null are Null.     *)
(***************************************************************************)
EXTENDS Integers, Sequences, FiniteSets, TLC

VARIABLES plan_nodes,     \* execute_plan: the argument, a list of PlanNode
          idx,            \* execute_plan: position of the for loop (1-based)
          tasks,          \* execute_plan: the list of ExecutionTask built so far
          results_by_id,  \* execute_plan: step id -> ExecutionTask
          dispatched,     \* calls made through mcp_manager.call_execute, in order
          outcome,        \* what the loop did with each step processed so far
          status,         \* "idle", "planning", "planned", "running", "returned", "raised", "fused"
          schemas,        \* schema_index.schemas: key -> SourceSchema
          SCHEMAS_LOADED, \* planner._SCHEMAS_LOADED
          rpc,            \* per request: "idle", "fetching", "planned" or "raised"
          rpos,           \* per request: position of the loop over MCP_REGISTRY.keys()
          rsources,       \* per request: the result of build_sources_for_llm()
          get_schema_calls, \* per source: number of get_schema calls made
          answered,       \* sources whose get_schema call has returned a body
          adapter,        \* per source: the body its get_schema returns
          client,         \* planner.gemini.client: "available" or "unavailable" (None)
          raw_steps,      \* plan(): the steps of the response of plan_query
          rawpos,         \* plan(): position of the loop over raw_steps (1-based)
          nl_query,       \* fuse: the nl_query argument, a text or NoQuery
          fused           \* fuse: the dict it returns, NoFused before

execVars == <<plan_nodes, idx, tasks, results_by_id, dispatched, outcome, status>>

catalogVars == <<schemas, SCHEMAS_LOADED, rpc, rpos, rsources, get_schema_calls,
                 answered, adapter>>

planVars == <<client, raw_steps, rawpos>>

fuseVars == <<nl_query, fused>>

vars == <<execVars, catalogVars, planVars, fuseVars>>

(***************************************************************************)
(* Bounds                                                                  *)
(***************************************************************************)
MaxSteps == 3       \* longest plan of Spec
MaxRefSteps == 2    \* longest plan of RefSpec
NumRequests == 2    \* concurrent requests of CatalogSpec
MaxRawSteps == 3    \* longest list of steps of PlanLoopSpec
MaxFuseTasks == 2   \* longest plan of FuseSpec

(***************************************************************************)
(* JSON values                                                             *)
(***************************************************************************)
NONE == "<None>"                      \* Python None in a str-typed position
Null == [t |-> "null"]                \* Python None / JSON null as a value
Str(s) == [t |-> "str", s |-> s]      \* s: text, a sequence of atoms
Num(n) == [t |-> "num", n |-> n]
Vec(v) == [t |-> "vec", v |-> v]      \* a non-empty list of floats, by name
Dict(d) == [t |-> "dict", d |-> d]    \* d: function from keys to JSON values
List(items) == [t |-> "list", items |-> items]

EmptyDict == [k \in {} |-> Null]

\* Python truthiness of a JSON value.
Truthy(v) ==
    CASE v.t = "null" -> FALSE
      [] v.t = "str"  -> v.s # <<>>
      [] v.t = "num"  -> v.n # 0
      [] v.t = "vec"  -> TRUE
      [] v.t = "dict" -> DOMAIN v.d # {}
      [] v.t = "list" -> v.items # <<>>

\* Python truthiness of an Optional[str].
TruthyStr(s) == s # NONE /\ s # ""

\* a or b, on Optional[str]
OrStr(a, b) == IF TruthyStr(a) THEN a ELSE b

\* d.get(k, default) on a record / dict
Get(d, k, default) == IF k \in DOMAIN d THEN d[k] ELSE default

(***************************************************************************)
(* mcp_manager: the source registry and the tool dispatcher                *)
(***************************************************************************)
DEFAULT_MCP_MANIFESTS ==
    <<[id |-> "sql_customers",    capabilities |-> <<"query.sql">>],
      [id |-> "orders_mongo",     capabilities |-> <<"query.document">>],
      [id |-> "graph_referrals",  capabilities |-> <<"query.graph">>],
      [id |-> "vector_customers", capabilities |-> <<"query.vector">>]>>

\* The registry after import: register_default_manifests() has run.
MCP_REGISTRY ==
    [id \in {DEFAULT_MCP_MANIFESTS[i].id : i \in DOMAIN DEFAULT_MCP_MANIFESTS} |->
        CHOOSE m \in {DEFAULT_MCP_MANIFESTS[i] : i \in DOMAIN DEFAULT_MCP_MANIFESTS} : m.id = id]

\* call_execute raises before any I/O when the source is not registered.
NotRegistered(mcp_id) == mcp_id \notin DOMAIN MCP_REGISTRY

NotRegisteredError(mcp_id) == <<"MCP ", mcp_id, " not registered">>

\* Messages of the exceptions httpx raises (connection failure, raise_for_status).
TransportErrors == {<<"All connection attempts failed">>}

(***************************************************************************)
(* execution.py: pure helpers                                              *)
(***************************************************************************)
\* str.split("."): the segments between the "." atoms.
RECURSIVE split(_)
split(s) ==
    IF \A i \in 1..Len(s) : s[i] # "."
    THEN <<s>>
    ELSE LET i == CHOOSE j \in 1..Len(s) :
                      s[j] = "." /\ \A k \in 1..(j - 1) : s[k] # "."
         IN  <<SubSeq(s, 1, i - 1)>> \o split(SubSeq(s, i + 1, Len(s)))

\* dict.get(key) where key is a text and the dict's keys are single atoms.
GetSeg(d, seg) ==
    IF \E k \in DOMAIN d : <<k>> = seg
    THEN d[CHOOSE k \in DOMAIN d : <<k>> = seg]
    ELSE Null

\* Mutant: only the first field of the path is followed.
walk_first_only(value, keys) ==
    IF keys = <<>> THEN value
    ELSE IF value.t = "dict" THEN GetSeg(value.d, Head(keys))
    ELSE Null

\* The loop "for key in parts[1:]" of _resolve_ref.
RECURSIVE walk(_, _)
walk(value, keys) ==
    IF keys = <<>> THEN value
    ELSE IF value.t = "dict"
         THEN LET v == GetSeg(value.d, Head(keys))
              IN  IF v = Null THEN Null ELSE walk(v, Tail(keys))
         ELSE Null

\* ref.split raises AttributeError when ref is truthy and not a str.
resolve_ref_raises(ref) == Truthy(ref) /\ ref.t # "str"

resolve_ref(results, ref) ==
    IF ~Truthy(ref) THEN Null
    ELSE LET parts == split(ref.s)
         IN  IF ~(\E k \in DOMAIN results : <<k>> = parts[1])
             THEN Null
             ELSE LET task == results[CHOOSE k \in DOMAIN results : <<k>> = parts[1]]
                  IN  IF task.result = <<>> THEN Null
                      ELSE walk(task.result[1], Tail(parts))

extract_rows(res) ==
    IF res.t = "list" THEN res
    ELSE IF res.t # "dict" THEN List(<<>>)
    ELSE IF "rows" \in DOMAIN res.d THEN res.d["rows"]
    ELSE IF "docs" \in DOMAIN res.d THEN res.d["docs"]
    ELSE IF "matches" \in DOMAIN res.d THEN res.d["matches"]
    ELSE IF "data" \in DOMAIN res.d THEN res.d["data"]
    ELSE List(<<>>)

extract_meta(res) ==
    IF res.t = "dict"
    THEN LET m == Get(res.d, "meta", Dict(EmptyDict))
         IN  IF Truthy(m) THEN m.d ELSE EmptyDict
    ELSE EmptyDict

\* ExecutionTask.result is List[Dict[str, Any]]: pydantic rejects anything else.
ValidRows(rows) ==
    rows.t = "list" /\ \A i \in DOMAIN rows.items : rows.items[i].t = "dict"

\* ExecutionTask(...); the meta dict is coerced to SourceMeta, which keeps
\* source_id, source_type, last_updated and extra.
ExecutionTask(step_id, mcp_id, rows, source_id, source_type, last_updated, extra) ==
    [plan_node_id |-> step_id,
     source       |-> mcp_id,
     result       |-> rows,
     meta         |-> [source_id    |-> source_id,
                       source_type  |-> source_type,
                       last_updated |-> last_updated,
                       extra        |-> extra]]

\* planner._capability_from_tool
capability_from_tool(db_type, tool) ==
    IF tool = "execute_sql" \/ db_type = "sql" THEN "query.sql"
    ELSE IF tool = "find" \/ db_type = "nosql" THEN "query.document"
    ELSE IF tool = "traverse" \/ db_type = "graph" THEN "query.graph"
    ELSE IF tool = "search" \/ db_type = "vector" THEN "query.vector"
    ELSE "query.sql"

\* "Infer tool if not specified"
InferTool(tool, cap, db_type) ==
    IF tool # "" THEN tool
    ELSE IF cap = "query.sql" \/ db_type = "sql" THEN "execute_sql"
    ELSE IF cap = "query.document" \/ db_type = "nosql" THEN "find"
    ELSE IF cap = "query.graph" \/ db_type = "graph" THEN "traverse"
    ELSE IF cap = "query.vector" \/ db_type = "vector" THEN "search"
    ELSE "execute_sql"

\* PlanNode built by planner.plan from one step of the LLM-native plan; the
\* whole step travels in subquery_nl.
PlanNode(step) ==
    [id          |-> step.id,
     capability  |-> capability_from_tool(Get(step, "db_type", ""), Get(step, "tool", "")),
     preferred   |-> step.mcp_id,
     depends_on  |-> Get(step, "depends_on", NONE),
     subquery_nl |-> step]

(***************************************************************************)
(* Inputs: plans and adapter responses                                     *)
(***************************************************************************)
StepIds == <<"p1", "p2", "p3", "p4", "p5">>

DependsOnValues == {"p1", "p2"}

QueryInput == <<"query">> :> Str(<<"SELECT id,name,email,embedding FROM customers">>)

\* Values an LLM-written step can carry under the key embedding_from.
RefValues ==
    {Str(<<"p1", ".", "embedding">>),
     Str(<<"p1", ".", "customer", ".", "embedding">>),
     Str(<<"p1", ".", "score">>),
     Str(<<"p1", ".", "missing">>),
     Str(<<"p1">>),
     Str(<<>>),
     Num(5)}

SearchInput(ref) == (<<"embedding", "_from">> :> ref) @@ (<<"top_k">> :> Num(3))

SqlStep(i, mcp_id) ==
    [id |-> StepIds[i], mcp_id |-> mcp_id, db_type |-> "sql", tool |-> "execute_sql",
     input |-> QueryInput, output_alias |-> "customer"]

DependentStep(i, d, opt) ==
    [id |-> StepIds[i], mcp_id |-> "orders_mongo", db_type |-> "nosql", tool |-> "find",
     input |-> (<<"limit">> :> Num(5)), depends_on |-> d, optional |-> opt,
     output_alias |-> "recent_orders"]

SearchStep(i, ref) ==
    [id |-> StepIds[i], mcp_id |-> "vector_customers", db_type |-> "vector",
     input |-> SearchInput(ref), output_alias |-> "similar_customers"]

\* The steps a plan can hold at position i: plans that exercise the dependency
\* handling, with one step whose reference is ill-typed.
StepsAt(i) ==
    {SqlStep(i, "sql_customers"), SqlStep(i, "sql_archive")}
    \cup {DependentStep(i, d, opt) : d \in DependsOnValues, opt \in BOOLEAN}
    \cup {SearchStep(i, Num(5))}

\* Plans that exercise the reference resolution: every reference value, after
\* a producer step or a step that is skipped or fails on its dependency.
RefStepsAt(i) ==
    {SqlStep(i, "sql_customers")}
    \cup {DependentStep(i, "p2", opt) : opt \in BOOLEAN}
    \cup {SearchStep(i, ref) : ref \in RefValues}
    \cup {SearchStep(i, ref) @@ [depends_on |-> "p1"] :
                ref \in {Str(<<"p1", ".", "embedding">>), Str(<<"p1", ".", "missing">>)}}

\* The plans of at most longest steps whose i-th step is in steps_at[i].
PlansOf(steps_at, longest) ==
    UNION {{p \in [1..n -> UNION {steps_at[i] : i \in 1..n}] :
                \A i \in 1..n : p[i] \in steps_at[i]} : n \in 1..longest}

Plans == PlansOf([i \in 1..MaxSteps |-> StepsAt(i)], MaxSteps)

RefPlans == PlansOf([i \in 1..MaxRefSteps |-> RefStepsAt(i)], MaxRefSteps)

Row1 ==
    Dict([id |-> Str(<<"cust001">>),
          embedding |-> Vec("V1"),
          customer |-> Dict([embedding |-> Vec("V2")]),
          score |-> Null])

\* Response bodies of the adapters (2xx, JSON).
BodyRows  == Dict([rows |-> List(<<Row1>>),
                   meta |-> Dict([source_id |-> "sql_customers", source_type |-> "SQL"])])
BodyEmpty == Dict([docs |-> List(<<>>)])
BodyError == Dict([rows |-> List(<<>>),
                   meta |-> Dict([source_id |-> "graph_referrals",
                                  source_type |-> "query.graph",
                                  error |-> <<"Neo4j driver not initialized">>])])
BodyGraph == Dict([data |-> Dict([nodes |-> List(<<>>), edges |-> List(<<>>)])])

Bodies == {BodyRows, BodyEmpty, BodyError, BodyGraph}

(***************************************************************************)
(* execute_plan                                                            *)
(***************************************************************************)
node == plan_nodes[idx]
step == node.subquery_nl
step_id == Get(step, "id", node.id)
mcp_id == OrStr(Get(step, "mcp_id", NONE), node.preferred)
db_type == Get(step, "db_type", "")
input_payload == Get(step, "input", EmptyDict)
depends_on == OrStr(Get(step, "depends_on", NONE), node.depends_on)
is_optional == Get(step, "optional", FALSE)

IsFromKey(key) == Len(key) > 0 /\ key[Len(key)] = "_from"
actual_key(key) == SubSeq(key, 1, Len(key) - 1)

\* "Resolve any *_from references in input": the payload after the loop.
resolved_payload(results, input) ==
    LET from_keys == {k \in DOMAIN input : IsFromKey(k)}
        resolved  == {k \in from_keys : resolve_ref(results, input[k]) # Null}
        keys      == (DOMAIN input \ from_keys) \cup {actual_key(k) : k \in resolved}
    IN  [k \in keys |->
            IF \E f \in resolved : actual_key(f) = k
            THEN resolve_ref(results, input[CHOOSE f \in resolved : actual_key(f) = k])
            ELSE input[k]]

\* The dependency check of a step.
DependencyAbsent == TruthyStr(depends_on) /\ depends_on \notin DOMAIN results_by_id
DependencyEmpty ==
    /\ TruthyStr(depends_on)
    /\ depends_on \in DOMAIN results_by_id
    /\ results_by_id[depends_on].result = <<>>

InLoop == status = "running" /\ idx <= Len(plan_nodes)

\* Mutant: an optional step is skipped only when its dependency is absent.
ShouldSkip_absent_only == DependencyAbsent /\ is_optional

\* Mutant: an optional step is skipped only when its dependency has a task
\* without rows.
ShouldSkip_empty_only == DependencyEmpty /\ is_optional

\* "if is_optional: continue", under "if not dep_task" and "if not dep_task.result"
ShouldSkip == (DependencyAbsent \/ DependencyEmpty) /\ is_optional

\* Mutant: a missing dependency never fails the step.
ShouldFail_never == FALSE

\* the else branch under "if not dep_task"
ShouldFail == DependencyAbsent /\ ~is_optional

\* The step reaches "Resolve any *_from references".
PastDependencyCheck == InLoop /\ ~ShouldFail /\ ~ShouldSkip

\* Mutant: the task is put in front of the list.
Record_prepend(task, what) ==
    /\ tasks' = <<task>> \o tasks
    /\ results_by_id' = (step_id :> task) @@ results_by_id
    /\ outcome' = Append(outcome, what)
    /\ idx' = idx + 1

Record(task, what) ==
    /\ tasks' = Append(tasks, task)
    /\ results_by_id' = (step_id :> task) @@ results_by_id
    /\ outcome' = Append(outcome, what)
    /\ idx' = idx + 1

FailedTask(error) ==
    ExecutionTask(step_id, mcp_id, <<>>, mcp_id, node.capability, NONE,
                  [error |-> error])

\* optional step, dependency absent or without rows: continue
SkipOptional ==
    /\ InLoop
    /\ ShouldSkip
    /\ idx' = idx + 1
    /\ outcome' = Append(outcome, "skipped")
    /\ UNCHANGED <<plan_nodes, tasks, results_by_id, dispatched, status, catalogVars, planVars, fuseVars>>

\* Mutant: the step with a missing dependency is dropped without a task.
FailDependency_silent ==
    /\ InLoop
    /\ ShouldFail
    /\ idx' = idx + 1
    /\ outcome' = Append(outcome, "dependency_missing")
    /\ UNCHANGED <<plan_nodes, tasks, results_by_id, dispatched, status, catalogVars, planVars, fuseVars>>

\* required step, dependency absent: failed task, continue
FailDependency ==
    /\ InLoop
    /\ ShouldFail
    /\ Record(FailedTask(<<"Dependency ", depends_on, " not found">>), "dependency_missing")
    /\ UNCHANGED <<plan_nodes, dispatched, status, catalogVars, planVars, fuseVars>>

\* _resolve_ref raises AttributeError on a truthy non-str reference; nothing
\* in execute_plan catches it.
ResolveRaises ==
    /\ PastDependencyCheck
    /\ \E k \in DOMAIN input_payload :
            IsFromKey(k) /\ resolve_ref_raises(input_payload[k])
    /\ status' = "raised"
    /\ outcome' = Append(outcome, "resolve_raised")
    /\ UNCHANGED <<plan_nodes, idx, tasks, results_by_id, dispatched, catalogVars, planVars, fuseVars>>

CanDispatch ==
    /\ PastDependencyCheck
    /\ \A k \in DOMAIN input_payload :
            IsFromKey(k) => ~resolve_ref_raises(input_payload[k])

TheCall ==
    [step    |-> idx,
     mcp_id  |-> mcp_id,
     tool    |-> InferTool(Get(step, "tool", ""), node.capability, db_type),
     payload |-> resolved_payload(results_by_id, input_payload)]

\* Mutant: the exception of call_execute leaves execute_plan.
DispatchRaises_aborts ==
    /\ CanDispatch
    /\ dispatched' = Append(dispatched, TheCall)
    /\ status' = "raised"
    /\ outcome' = Append(outcome, "dispatch_failed")
    /\ UNCHANGED <<plan_nodes, idx, tasks, results_by_id, catalogVars, planVars, fuseVars>>

\* Mutant: the failed call is made again for the same step.
DispatchRaises_retries ==
    /\ CanDispatch
    /\ dispatched' = Append(dispatched, TheCall)
    /\ UNCHANGED <<plan_nodes, idx, tasks, results_by_id, outcome, status,
                   catalogVars, planVars, fuseVars>>

\* call_execute raises: the except branch records a failed task, continue
DispatchRaises ==
    /\ CanDispatch
    /\ \E e \in (IF NotRegistered(mcp_id) THEN {NotRegisteredError(mcp_id)}
                 ELSE TransportErrors) :
            Record(FailedTask(e), "dispatch_failed")
    /\ dispatched' = Append(dispatched, TheCall)
    /\ UNCHANGED <<plan_nodes, status, catalogVars, planVars, fuseVars>>

\* call_execute returns a body whose rows make a valid ExecutionTask
DispatchReturns ==
    /\ CanDispatch
    /\ ~NotRegistered(mcp_id)
    /\ \E res \in Bodies :
         LET rows == extract_rows(res)
             meta == extract_meta(res)
         IN  /\ ValidRows(rows)
             /\ Record(ExecutionTask(step_id, mcp_id, rows.items,
                           OrStr(Get(meta, "source_id", NONE), mcp_id),
                           OrStr(Get(meta, "source_type", NONE), node.capability),
                           Get(meta, "last_updated", NONE),
                           [k \in DOMAIN meta \ {"source_id", "source_type", "last_updated"}
                                |-> meta[k]]),
                       "completed")
    /\ dispatched' = Append(dispatched, TheCall)
    /\ UNCHANGED <<plan_nodes, status, catalogVars, planVars, fuseVars>>

\* call_execute returns a body whose row container is not a list of objects:
\* ExecutionTask(...) raises a ValidationError outside the try block
DispatchReturnsInvalid ==
    /\ CanDispatch
    /\ ~NotRegistered(mcp_id)
    /\ \E res \in Bodies : ~ValidRows(extract_rows(res))
    /\ dispatched' = Append(dispatched, TheCall)
    /\ status' = "raised"
    /\ outcome' = Append(outcome, "validation_raised")
    /\ UNCHANGED <<plan_nodes, idx, tasks, results_by_id, catalogVars, planVars, fuseVars>>

\* the loop is over: return tasks
Return ==
    /\ status = "running"
    /\ idx > Len(plan_nodes)
    /\ status' = "returned"
    /\ UNCHANGED <<plan_nodes, idx, tasks, results_by_id, dispatched, outcome, catalogVars, planVars, fuseVars>>

execute_plan ==
    \/ SkipOptional
    \/ FailDependency
    \/ ResolveRaises
    \/ DispatchRaises
    \/ DispatchReturns
    \/ DispatchReturnsInvalid
    \/ Return

(***************************************************************************)
(* planner: the lazy schema catalog                                        *)
(***************************************************************************)
Requests == 1..NumRequests

\* MCP_REGISTRY.keys(), in insertion order
RegistryKeys == [i \in DOMAIN DEFAULT_MCP_MANIFESTS |-> DEFAULT_MCP_MANIFESTS[i].id]

\* db_type each sample adapter reports from /get_schema
AdapterDbType ==
    [id \in DOMAIN MCP_REGISTRY |->
        CASE id = "sql_customers"    -> "sql"
          [] id = "orders_mongo"     -> "nosql"
          [] id = "graph_referrals"  -> "graph"
          [] id = "vector_customers" -> "vector"]

\* Bodies a source can answer get_schema with: its own schema; a schema under
\* another mcp_id; a schema without db_type; a body without mcp_id.
SchemaBodies(id) ==
    {[mcp_id |-> id, db_type |-> AdapterDbType[id], entities |-> <<>>],
     [mcp_id |-> "warehouse", db_type |-> AdapterDbType[id], entities |-> <<>>],
     [mcp_id |-> id, entities |-> <<>>],
     [db_type |-> AdapterDbType[id], entities |-> <<>>]}

\* At most one source deviates from the sample adapters.
AdapterConfigs ==
    {a \in [DOMAIN MCP_REGISTRY -> UNION {SchemaBodies(id) : id \in DOMAIN MCP_REGISTRY}] :
        /\ \A id \in DOMAIN MCP_REGISTRY : a[id] \in SchemaBodies(id)
        /\ Cardinality({id \in DOMAIN MCP_REGISTRY :
                a[id] # [mcp_id |-> id, db_type |-> AdapterDbType[id], entities |-> <<>>]}) <= 1}

\* source_schema_from_dict raises KeyError without "mcp_id"
source_schema_raises(d) == "mcp_id" \notin DOMAIN d

source_schema_from_dict(d) ==
    [mcp_id   |-> d.mcp_id,
     db_type  |-> Get(d, "db_type", "sql"),
     entities |-> Get(d, "entities", <<>>)]

\* SchemaIndex.register_schema
register_schema(index, schema) == (schema.mcp_id :> schema) @@ index

\* SchemaIndex.build_sources_for_llm
build_sources_for_llm(index) ==
    [k \in DOMAIN index |->
        [mcp_id  |-> index[k].mcp_id,
         db_type |-> index[k].db_type,
         tools   |-> CASE index[k].db_type = "sql"    -> <<"execute_sql", "get_schema">>
                       [] index[k].db_type = "nosql"  -> <<"find", "get_schema">>
                       [] index[k].db_type = "graph"  -> <<"traverse", "get_schema">>
                       [] index[k].db_type = "vector" -> <<"search", "get_schema">>
                       [] OTHER -> <<"get_schema">>]]

NoSources == "<unset>"

\* plan(), lines 93-94, with the catalog as it is now; the request has planned.
BuildSources(r, index) ==
    /\ rsources' = [rsources EXCEPT ![r] = build_sources_for_llm(index)]
    /\ rpc' = [rpc EXCEPT ![r] = "planned"]

\* plan() finds the catalog populated and does not call _ensure_schemas_loaded
PlanWithCatalog(r) ==
    /\ rpc[r] = "idle"
    /\ DOMAIN schemas # {}
    /\ BuildSources(r, schemas)
    /\ UNCHANGED <<schemas, SCHEMAS_LOADED, rpos, get_schema_calls, answered, adapter, execVars, planVars, fuseVars>>

\* plan() finds the catalog empty: _ensure_schemas_loaded runs up to its first
\* await, the get_schema call to the first registered source
PlanLoadsCatalog(r) ==
    /\ rpc[r] = "idle"
    /\ DOMAIN schemas = {}
    /\ ~(SCHEMAS_LOADED /\ DOMAIN schemas # {})
    /\ DOMAIN MCP_REGISTRY # {}
    /\ rpc' = [rpc EXCEPT ![r] = "fetching"]
    /\ rpos' = [rpos EXCEPT ![r] = 1]
    /\ get_schema_calls' = [get_schema_calls EXCEPT ![RegistryKeys[1]] = @ + 1]
    /\ UNCHANGED <<schemas, SCHEMAS_LOADED, rsources, answered, adapter, execVars, planVars, fuseVars>>

\* After one iteration of the loop: the next get_schema call, or the end of the
\* pass, which sets the flag and returns to plan().
NextFetch(r, index) ==
    IF rpos[r] < Len(RegistryKeys)
    THEN /\ rpos' = [rpos EXCEPT ![r] = @ + 1]
         /\ get_schema_calls' = [get_schema_calls EXCEPT ![RegistryKeys[rpos[r] + 1]] = @ + 1]
         /\ UNCHANGED <<SCHEMAS_LOADED, rpc, rsources>>
    ELSE /\ SCHEMAS_LOADED' = TRUE
         /\ BuildSources(r, index)
         /\ UNCHANGED <<rpos, get_schema_calls>>

\* get_schema returns a body: parse and register, or log the KeyError
FetchReturns(r) ==
    /\ rpc[r] = "fetching"
    /\ LET id == RegistryKeys[rpos[r]]
           body == adapter[id]
           index == IF source_schema_raises(body) THEN schemas
                    ELSE register_schema(schemas, source_schema_from_dict(body))
       IN  /\ schemas' = index
           /\ answered' = answered \cup {id}
           /\ NextFetch(r, index)
    /\ UNCHANGED <<adapter, execVars, planVars, fuseVars>>

\* Mutant: the exception of get_schema leaves _ensure_schemas_loaded and plan().
FetchRaises_aborts(r) ==
    /\ rpc[r] = "fetching"
    /\ rpc' = [rpc EXCEPT ![r] = "raised"]
    /\ UNCHANGED <<schemas, SCHEMAS_LOADED, rpos, rsources, get_schema_calls, answered,
                   adapter, execVars, planVars, fuseVars>>

\* get_schema raises (transport failure, non-2xx): logged, next source
FetchRaises(r) ==
    /\ rpc[r] = "fetching"
    /\ NextFetch(r, schemas)
    /\ UNCHANGED <<schemas, answered, adapter, execVars, planVars, fuseVars>>

\* Mutant: plan_query accepts the call and plan() returns an empty plan, which
\* query_endpoint executes, fuses and answers with status COMPLETE.
PlanQueryRaises_returns(r) ==
    /\ rpc[r] = "planned"
    /\ rpc' = [rpc EXCEPT ![r] = "complete"]
    /\ UNCHANGED <<schemas, SCHEMAS_LOADED, rpos, rsources, get_schema_calls, answered,
                   adapter, execVars, planVars, fuseVars>>

\* plan(), lines 98-101: gemini.plan_query(nl_query, entity_candidates=...,
\* sources=...) does not match plan_query(self, nl_query, schema_hints=None):
\* the call raises TypeError whatever the client is, before any await. Nothing in
\* plan() or query_endpoint catches it: the request is answered with a 500.
\* (Lines 93-101 run without a suspension; the step is separate from
\* BuildSources only to show the descriptor the request has built.)
PlanQueryRaises(r) ==
    /\ rpc[r] = "planned"
    /\ client \in {"available", "unavailable"}
    /\ rpc' = [rpc EXCEPT ![r] = "raised"]
    /\ UNCHANGED <<schemas, SCHEMAS_LOADED, rpos, rsources, get_schema_calls, answered,
                   adapter, execVars, planVars, fuseVars>>

planner ==
    \E r \in Requests :
        \/ PlanWithCatalog(r)
        \/ PlanLoadsCatalog(r)
        \/ FetchReturns(r)
        \/ FetchRaises(r)
        \/ PlanQueryRaises(r)

\* The catalog of a fresh process, no request under way.
CatalogIdle ==
    /\ schemas = [k \in {} |-> Null]
    /\ SCHEMAS_LOADED = FALSE
    /\ rpc = [r \in Requests |-> "idle"]
    /\ rpos = [r \in Requests |-> 0]
    /\ rsources = [r \in Requests |-> NoSources]
    /\ get_schema_calls = [id \in DOMAIN MCP_REGISTRY |-> 0]
    /\ answered = {}

(***************************************************************************)
(* planner: from the steps of plan_query to PlanNodes                      *)
(***************************************************************************)
\* A step as _heuristic_plan builds it: no mcp_id, db_type, tool or input.
HeuristicStep(i) ==
    [id |-> StepIds[i], intent |-> "list_customers", capability |-> "query.sql",
     native_query |-> <<"SELECT id,name,email FROM customers">>]

\* The steps a response of plan_query can hold at position i: steps as the
\* prompt asks for them, a step on a source that is not registered, a step
\* whose tool does not belong to its db_type, and a step of _heuristic_plan.
RawStepsAt(i) ==
    {SqlStep(i, "sql_customers"),
     SqlStep(i, "sql_archive"),
     [SqlStep(i, "sql_customers") EXCEPT !.tool = "find"],
     DependentStep(i, "p1", FALSE),
     HeuristicStep(i)}

RawPlans == PlansOf([i \in 1..MaxRawSteps |-> RawStepsAt(i)], MaxRawSteps)

plan_step == raw_steps[rawpos]

InPlanLoop == status = "planning" /\ rawpos <= Len(raw_steps)

\* step["id"] or step["mcp_id"] raises KeyError. (PlanNode(...) also rejects a
\* field of the wrong type; every field of the steps above is a string.)
plan_step_raises(s) == ~({"id", "mcp_id"} \subseteq DOMAIN s)

\* the try block of the loop: the step becomes a PlanNode
KeepStep ==
    /\ InPlanLoop
    /\ ~plan_step_raises(plan_step)
    /\ plan_nodes' = Append(plan_nodes, PlanNode(plan_step))
    /\ rawpos' = rawpos + 1
    /\ UNCHANGED <<idx, tasks, results_by_id, dispatched, outcome, status,
                   client, raw_steps, catalogVars, fuseVars>>

\* the except block: "Invalid plan step from LLM, skipping"
DropStep ==
    /\ InPlanLoop
    /\ plan_step_raises(plan_step)
    /\ rawpos' = rawpos + 1
    /\ UNCHANGED <<plan_nodes, idx, tasks, results_by_id, dispatched, outcome, status,
                   client, raw_steps, catalogVars, fuseVars>>

\* return plan_nodes
PlanReturns ==
    /\ status = "planning"
    /\ rawpos > Len(raw_steps)
    /\ status' = "planned"
    /\ UNCHANGED <<plan_nodes, idx, tasks, results_by_id, dispatched, outcome,
                   planVars, catalogVars, fuseVars>>

plan_loop ==
    \/ KeepStep
    \/ DropStep
    \/ PlanReturns

(***************************************************************************)
(* fusion.py                                                               *)
(***************************************************************************)
\* The parts of the names and source types that fuse looks for: a str of the
\* program as its text.
Atoms(str) ==
    CASE str = "sql_customers"    -> <<"sql", "_", "customers">>
      [] str = "sql_archive"      -> <<"sql", "_", "archive">>
      [] str = "orders_mongo"     -> <<"orders", "_", "mongo">>
      [] str = "nosql_orders"     -> <<"no", "sql", "_", "orders">>
      [] str = "graph_referrals"  -> <<"graph", "_", "referrals">>
      [] str = "vector_customers" -> <<"vector", "_", "customers">>
      [] str = "NoSQL"            -> <<"No", "SQL">>
      [] str = "query.sql"        -> <<"query", ".", "sql">>
      [] str = "query.document"   -> <<"query", ".", "document">>
      [] str = "query.graph"      -> <<"query", ".", "graph">>
      [] str = "query.vector"     -> <<"query", ".", "vector">>
      [] str = NONE               -> <<>>
      [] str = ""                 -> <<>>
      [] OTHER                    -> <<str>>

\* str.lower()
LowerAtom(a) ==
    CASE a = "SQL"       -> "sql"
      [] a = "No"        -> "no"
      [] a = "Give"      -> "give"
      [] a = "Find"      -> "find"
      [] a = "Customer"  -> "customer"
      [] a = "LIST"      -> "list"
      [] a = "CUSTOMERS" -> "customers"
      [] OTHER           -> a

lower(text) == [i \in DOMAIN text |-> LowerAtom(text[i])]

\* part in text
Contains(text, part) ==
    \E i \in 1..(Len(text) - Len(part) + 1) : SubSeq(text, i, i + Len(part) - 1) = part

\* text.startswith(prefix)
StartsWith(text, prefix) ==
    Len(text) >= Len(prefix) /\ SubSeq(text, 1, Len(prefix)) = prefix

\* The phrases of is_list_customers, word by word.
ListPhrases ==
    {<<"list", "of", "all", "customers">>,
     <<"all", "customers">>,
     <<"list", "all", "customers">>,
     <<"give", "me", "a", "list", "of", "all", "customers">>,
     <<"show", "all", "customers">>,
     <<"list", "customers">>,
     <<"list", "clients">>}

\* q = (nl_query or "").lower(); any(phrase in q ...)
is_list_customers(query) == \E phrase \in ListPhrases : Contains(lower(query), phrase)

\* (t.meta.extra or {}).get("source_type", "").lower()
ExtraSourceType(t) ==
    IF "source_type" \in DOMAIN t.meta.extra
    THEN lower(Atoms(t.meta.extra.source_type)) ELSE <<>>

\* (t.meta.source_type or "").lower().startswith(prefix) or extra's source_type == short
MetaIs(t, prefix, short) ==
    \/ StartsWith(lower(Atoms(t.meta.source_type)), prefix)
    \/ ExtraSourceType(t) = <<short>>

\* The conditions of the four list comprehensions.
IsSqlTask(t) ==
    MetaIs(t, <<"query", ".", "sql">>, "sql")
        \/ (TruthyStr(t.source) /\ Contains(Atoms(t.source), <<"sql">>))

IsNosqlTask(t) ==
    MetaIs(t, <<"query", ".", "document">>, "nosql")
        \/ (TruthyStr(t.source) /\ Contains(lower(Atoms(t.source)), <<"mongo">>))
        \/ Contains(lower(Atoms(t.source)), <<"orders">>)

IsGraphTask(t) ==
    MetaIs(t, <<"query", ".", "graph">>, "graph")
        \/ (TruthyStr(t.source) /\ Contains(lower(Atoms(t.source)), <<"graph">>))
        \/ Contains(lower(Atoms(t.source)), <<"neo4j">>)

IsVectorTask(t) ==
    MetaIs(t, <<"query", ".", "vector">>, "vector")
        \/ (TruthyStr(t.source) /\ Contains(lower(Atoms(t.source)), <<"vector">>))
        \/ Contains(lower(Atoms(t.source)), <<"milvus">>)

\* "fallback by capability detection in meta.extra"
IsSqlByExtra(t) == StartsWith(ExtraSourceType(t), <<"query", ".", "sql">>)

sql_tasks(ts) ==
    IF SelectSeq(ts, IsSqlTask) # <<>> THEN SelectSeq(ts, IsSqlTask)
    ELSE SelectSeq(ts, IsSqlByExtra)

\* Mutant: the rows of each task are put in front of the bucket.
RECURSIVE extend_all_front(_)
extend_all_front(ts) ==
    IF ts = <<>> THEN <<>> ELSE extend_all_front(Tail(ts)) \o Head(ts).result

\* for t in ts: bucket.extend(t.result or [])
RECURSIVE extend_all(_)
extend_all(ts) == IF ts = <<>> THEN <<>> ELSE Head(ts).result \o extend_all(Tail(ts))

\* ', '.join([t.source for t in ts])
RECURSIVE join_sources(_)
join_sources(ts) ==
    IF ts = <<>> THEN <<>>
    ELSE IF Len(ts) = 1 THEN <<ts[1].source>>
    ELSE <<ts[1].source, ", ">> \o join_sources(Tail(ts))

\* {"source": t.source, "meta": t.meta.extra}
provenance_of(t) == [source |-> t.source, meta |-> t.meta.extra]

provenance_list(ts) == [i \in DOMAIN ts |-> provenance_of(ts[i])]

NoEntries == [k \in {} |-> Null]

\* The dict fuse starts from.
fused_start ==
    [customer          |-> Dict(EmptyDict),
     customers         |-> List(<<>>),
     recent_orders     |-> List(<<>>),
     referrals         |-> List(<<>>),
     similar_customers |-> List(<<>>),
     explain           |-> List(<<>>),
     provenance        |-> Dict(NoEntries)]

\* Mutant: the early return builds its own dict of the keys it has filled.
fuse_list_customers_bare(ts) ==
    [customers  |-> List(sql_tasks(ts)[1].result),
     explain    |-> List(<<<<"Customers from ", OrStr(sql_tasks(ts)[1].source, "sql")>>>>),
     provenance |-> Dict("customers" :> provenance_of(sql_tasks(ts)[1]))]

\* "If list query and we have a SQL task -> return customers list"
fuse_list_customers(ts) ==
    [fused_start EXCEPT
        !.customers  = List(sql_tasks(ts)[1].result),
        !.explain    = List(<<<<"Customers from ", OrStr(sql_tasks(ts)[1].source, "sql")>>>>),
        !.provenance = Dict("customers" :> provenance_of(sql_tasks(ts)[1]))]

\* "try to build a canonical single customer": the first row of the first SQL task
with_customer(f, ts) ==
    IF sql_tasks(ts) # <<>> /\ sql_tasks(ts)[1].result # <<>>
    THEN [f EXCEPT
            !.customer   = sql_tasks(ts)[1].result[1],
            !.explain    = List(@.items \o <<<<"Customer from ", sql_tasks(ts)[1].source>>>>),
            !.provenance = Dict(("customer" :> provenance_of(sql_tasks(ts)[1])) @@ @.d)]
    ELSE f

\* One of the three list buckets: rows, explain entry and provenance of the
\* tasks selected for it.
with_bucket(f, bucket, label, ts) ==
    IF ts = <<>> THEN f
    ELSE [f EXCEPT
            ![bucket]    = List(@.items \o extend_all(ts)),
            !.explain    = List(@.items \o <<<<label>> \o join_sources(ts)>>),
            !.provenance = Dict((bucket :> provenance_list(ts)) @@ @.d)]

\* Mutant: only customer_id is looked up.
order_customer_id_only(first_order) == Get(first_order.d, "customer_id", Null)

\* first_order.get("customer_id") or first_order.get("cust_id")
order_customer_id(first_order) ==
    IF Truthy(Get(first_order.d, "customer_id", Null))
    THEN Get(first_order.d, "customer_id", Null)
    ELSE Get(first_order.d, "cust_id", Null)

\* Mutant: the inferred customer is not mentioned in explain.
infer_customer_silent(f) ==
    IF ~Truthy(f.customer) /\ f.recent_orders.items # <<>>
          /\ Truthy(order_customer_id(f.recent_orders.items[1]))
    THEN [f EXCEPT
            !.customer   = Dict([id |-> order_customer_id(f.recent_orders.items[1])]),
            !.provenance = Dict(("customer" :> [inferred_from |-> "orders",
                                                sample_order |-> f.recent_orders.items[1]])
                                 @@ @.d)]
    ELSE f

\* "If no primary_customer ... attempt to infer a primary customer"
infer_customer(f) ==
    IF ~Truthy(f.customer) /\ f.recent_orders.items # <<>>
          /\ Truthy(order_customer_id(f.recent_orders.items[1]))
    THEN [f EXCEPT
            !.customer   = Dict([id |-> order_customer_id(f.recent_orders.items[1])]),
            !.explain    = List(@.items \o <<<<"Inferred primary customer from recent orders">>>>),
            !.provenance = Dict(("customer" :> [inferred_from |-> "orders",
                                                sample_order |-> f.recent_orders.items[1]])
                                 @@ @.d)]
    ELSE f

\* Mutant: the similar customers are assembled before the orders.
fuse_buckets_similar_first(ts) ==
    infer_customer(
        with_bucket(
            with_bucket(
                with_bucket(with_customer(fused_start, ts),
                            "similar_customers", "Similar customers from ",
                            SelectSeq(ts, IsVectorTask)),
                "recent_orders", "Orders from ", SelectSeq(ts, IsNosqlTask)),
            "referrals", "Referrals from ", SelectSeq(ts, IsGraphTask)))

\* fuse() past the early return: customer, orders, referrals, similar
\* customers, inference.
fuse_buckets(ts) ==
    infer_customer(
        with_bucket(
            with_bucket(
                with_bucket(with_customer(fused_start, ts),
                            "recent_orders", "Orders from ", SelectSeq(ts, IsNosqlTask)),
                "referrals", "Referrals from ", SelectSeq(ts, IsGraphTask)),
            "similar_customers", "Similar customers from ", SelectSeq(ts, IsVectorTask)))

\* fuse(tasks, nl_query) returns through "if is_list_customers and sql_tasks"
FuseListCustomers ==
    /\ status = "returned"
    /\ is_list_customers(nl_query) /\ sql_tasks(tasks) # <<>>
    /\ fused' = fuse_list_customers(tasks)
    /\ status' = "fused"
    /\ UNCHANGED <<plan_nodes, idx, tasks, results_by_id, dispatched, outcome, nl_query,
                   catalogVars, planVars>>

\* fuse(tasks, nl_query) returns at the end
FuseBuckets ==
    /\ status = "returned"
    /\ ~(is_list_customers(nl_query) /\ sql_tasks(tasks) # <<>>)
    /\ fused' = fuse_buckets(tasks)
    /\ status' = "fused"
    /\ UNCHANGED <<plan_nodes, idx, tasks, results_by_id, dispatched, outcome, nl_query,
                   catalogVars, planVars>>

fuse ==
    \/ FuseListCustomers
    \/ FuseBuckets

\* nl_query=None, and the empty text: (nl_query or "")
NoQuery == <<>>
NoFused == "<unset>"

\* Queries of tests/test_end_to_end.py, word by word, and a list query in capitals.
Queries ==
    {<<"Give", "me", "a", "list", "of", "all", "customers">>,
     <<"Find", "the", "email", "for", "Customer", "001", "and", "list", "their",
       "last", "5", "purchases">>,
     <<"LIST", "CUSTOMERS", "in", "Pune">>,
     NoQuery}

\* Rows and bodies of the sample adapters.
Order1 == Dict([order_id |-> Str(<<"o1">>), customer_id |-> Str(<<"cust001">>)])
Order2 == Dict([order_id |-> Str(<<"o2">>), cust_id |-> Str(<<"cust002">>)])
Order3 == Dict([order_id |-> Str(<<"o3">>)])
Order4 == Dict([order_id |-> Str(<<"o4">>), customer_id |-> Str(<<"cust004">>)])
Referral1 == Dict([id |-> Str(<<"cust002">>)])
Match1 == Dict([id |-> Str(<<"cust003">>), score |-> Num(1)])

BodySqlError ==
    Dict([rows |-> List(<<>>),
          meta |-> Dict([source_id |-> "sql_customers", source_type |-> "SQL",
                         error |-> <<"Only SELECT allowed in MVP">>])])
BodyDocs ==
    Dict([docs |-> List(<<Order1>>),
          meta |-> Dict([source_id |-> "orders_mongo", source_type |-> "NoSQL"])])
BodyNoDocs ==
    Dict([docs |-> List(<<>>),
          meta |-> Dict([source_id |-> "orders_mongo", source_type |-> "NoSQL"])])
\* Documents with the customer under cust_id, and without a customer.
BodyLegacyDocs ==
    Dict([docs |-> List(<<Order2>>),
          meta |-> Dict([source_id |-> "orders_mongo", source_type |-> "NoSQL"])])
BodyAnonymousDocs ==
    Dict([docs |-> List(<<Order3>>),
          meta |-> Dict([source_id |-> "orders_mongo", source_type |-> "NoSQL"])])
\* A second document source, registered under the id nosql_orders.
BodyStoreDocs ==
    Dict([docs |-> List(<<Order4>>),
          meta |-> Dict([source_id |-> "nosql_orders", source_type |-> "NoSQL"])])
BodyReferrals ==
    Dict([rows |-> List(<<Referral1>>),
          meta |-> Dict([source_id |-> "graph_referrals", source_type |-> "query.graph"])])
BodyMatches ==
    Dict([matches |-> List(<<Match1>>),
          meta |-> Dict([source_id |-> "vector_customers", source_type |-> "vector"])])

\* What execute_plan got for a step: a body, or an exception with its message.
Returned(body) == [raised |-> FALSE, body |-> body]
Raised(error) == [raised |-> TRUE, error |-> error]

StepOutcomes(mcp) ==
    CASE mcp = "sql_customers" ->
            {Returned(BodyRows), Returned(BodySqlError)}
                \cup {Raised(e) : e \in TransportErrors}
      [] mcp = "orders_mongo" ->
            {Returned(BodyDocs), Returned(BodyNoDocs), Returned(BodyLegacyDocs),
             Returned(BodyAnonymousDocs)}
                \cup {Raised(e) : e \in TransportErrors}
      [] mcp = "nosql_orders" ->
            {Returned(BodyStoreDocs)}
      [] mcp = "graph_referrals" ->
            {Returned(BodyReferrals), Returned(BodyError)}
      [] mcp = "vector_customers" ->
            {Returned(BodyMatches)} \cup {Raised(e) : e \in TransportErrors}
      [] OTHER ->
            {Raised(NotRegisteredError(mcp))}

\* The ExecutionTask execute_plan builds for PlanNode n from that outcome.
TaskFor(n, o) ==
    IF o.raised
    THEN ExecutionTask(n.id, n.preferred, <<>>, n.preferred, n.capability, NONE,
                       [error |-> o.error])
    ELSE LET rows == extract_rows(o.body)
             meta == extract_meta(o.body)
         IN  ExecutionTask(n.id, n.preferred, rows.items,
                           OrStr(Get(meta, "source_id", NONE), n.preferred),
                           OrStr(Get(meta, "source_type", NONE), n.capability),
                           Get(meta, "last_updated", NONE),
                           [k \in DOMAIN meta \ {"source_id", "source_type", "last_updated"}
                                |-> meta[k]])

AliasedStep(i, mcp, db, alias) ==
    [id |-> StepIds[i], mcp_id |-> mcp, db_type |-> db, output_alias |-> alias]

\* The steps a plan can hold at position i, with the alias the planner gave
\* them: each source under its usual alias, a list of customers from the SQL
\* source or derived from the orders, a second document source, and a source
\* that is not registered.
FuseStepsAt(i) ==
    {AliasedStep(i, "sql_customers", "sql", "customer"),
     AliasedStep(i, "sql_customers", "sql", "customers"),
     AliasedStep(i, "orders_mongo", "nosql", "recent_orders"),
     AliasedStep(i, "orders_mongo", "nosql", "customers"),
     AliasedStep(i, "nosql_orders", "nosql", "recent_orders"),
     AliasedStep(i, "graph_referrals", "graph", "referrals"),
     AliasedStep(i, "vector_customers", "vector", "similar_customers"),
     AliasedStep(i, "sql_archive", "sql", "customer")}

\* A step and what execute_plan got for it.
FuseCasesAt(i) ==
    UNION {{[step |-> st, outcome |-> o] : o \in StepOutcomes(st.mcp_id)} :
                st \in FuseStepsAt(i)}

FuseCaseLists ==
    {<<>>} \cup PlansOf([i \in 1..MaxFuseTasks |-> FuseCasesAt(i)], MaxFuseTasks)

\* plan() and fuse() have not been called.
PlanIdle == raw_steps = <<>> /\ rawpos = 1
FuseIdle == nl_query = NoQuery /\ fused = NoFused

\* The sample adapters, as shipped.
SampleAdapters ==
    [id \in DOMAIN MCP_REGISTRY |->
        [mcp_id |-> id, db_type |-> AdapterDbType[id], entities |-> <<>>]]

StartOf(plans) ==
    /\ plan_nodes \in {[i \in DOMAIN p |-> PlanNode(p[i])] : p \in plans}
    /\ idx = 1
    /\ tasks = <<>>
    /\ results_by_id = [k \in {} |-> Null]
    /\ dispatched = <<>>
    /\ outcome = <<>>
    /\ status = "running"
    /\ CatalogIdle
    /\ adapter = SampleAdapters
    /\ client = "unavailable"
    /\ PlanIdle
    /\ FuseIdle

Init == StartOf(Plans)

RefInit == StartOf(RefPlans)

\* Requests arriving at a fresh process; execute_plan has not been called.
CatalogInit ==
    /\ plan_nodes = <<>>
    /\ idx = 1
    /\ tasks = <<>>
    /\ results_by_id = [k \in {} |-> Null]
    /\ dispatched = <<>>
    /\ outcome = <<>>
    /\ status = "idle"
    /\ CatalogIdle
    /\ adapter \in AdapterConfigs
    /\ client \in {"available", "unavailable"}
    /\ PlanIdle
    /\ FuseIdle

\* plan() at line 105, with the steps of a response of plan_query.
PlanLoopInit ==
    /\ plan_nodes = <<>>
    /\ idx = 1
    /\ tasks = <<>>
    /\ results_by_id = [k \in {} |-> Null]
    /\ dispatched = <<>>
    /\ outcome = <<>>
    /\ status = "planning"
    /\ CatalogIdle
    /\ adapter = SampleAdapters
    /\ client = "available"
    /\ raw_steps \in RawPlans
    /\ rawpos = 1
    /\ FuseIdle

\* query_endpoint at line 38: execute_plan has returned the tasks of a plan.
FuseInit ==
    /\ \E cs \in FuseCaseLists :
          /\ plan_nodes = [i \in DOMAIN cs |-> PlanNode(cs[i].step)]
          /\ tasks = [i \in DOMAIN cs |-> TaskFor(PlanNode(cs[i].step), cs[i].outcome)]
          /\ results_by_id = [k \in {cs[i].step.id : i \in DOMAIN cs} |->
                                 LET i == CHOOSE i \in DOMAIN cs : cs[i].step.id = k
                                 IN  TaskFor(PlanNode(cs[i].step), cs[i].outcome)]
          /\ idx = Len(cs) + 1
    /\ dispatched = <<>>
    /\ outcome = <<>>
    /\ status = "returned"
    /\ CatalogIdle
    /\ adapter = SampleAdapters
    /\ client = "unavailable"
    /\ PlanIdle
    /\ nl_query \in Queries
    /\ fused = NoFused

Next == execute_plan

Spec == Init /\ [][Next]_vars

CatalogSpec == CatalogInit /\ [][planner]_vars

RefSpec == RefInit /\ [][Next]_vars

PlanLoopSpec == PlanLoopInit /\ [][plan_loop]_vars

FuseSpec == FuseInit /\ [][fuse]_vars

(***************************************************************************)
(* Properties of execute_plan                                              *)
(***************************************************************************)
StepJson(i) == plan_nodes[i].subquery_nl
StepDependsOn(i) == IF "depends_on" \in DOMAIN StepJson(i) THEN StepJson(i).depends_on ELSE NONE
StepOptional(i) == "optional" \in DOMAIN StepJson(i) /\ StepJson(i).optional
PlanIds == [i \in DOMAIN plan_nodes |-> plan_nodes[i].id]
TaskIds == [j \in DOMAIN tasks |-> tasks[j].plan_node_id]
TasksOfStep(i) == {j \in DOMAIN tasks : tasks[j].plan_node_id = plan_nodes[i].id}
StepOfTask(j) == CHOOSE i \in DOMAIN plan_nodes : plan_nodes[i].id = tasks[j].plan_node_id
DependencyError(d) == [error |-> <<"Dependency ", d, " not found">>]

RECURSIVE IsSubsequence(_, _)
IsSubsequence(a, b) ==
    IF a = <<>> THEN TRUE
    ELSE IF b = <<>> THEN FALSE
    ELSE IF Head(a) = Head(b) THEN IsSubsequence(Tail(a), Tail(b))
    ELSE IsSubsequence(a, Tail(b))

\* Step i is optional and, when its turn came, the step it depends on had no
\* task or a task without rows.
OptionalSkipped(i) ==
    /\ StepOptional(i)
    /\ StepDependsOn(i) # NONE
    /\ ~\E k \in 1..(i - 1) :
            /\ plan_nodes[k].id = StepDependsOn(i)
            /\ \E j \in TasksOfStep(k) : tasks[j].result # <<>>

\* C1: the step ids of the returned tasks are a subsequence of the plan's step
\* ids in plan order; an optional step skipped for its dependency has no task
\* and every other step has exactly one.
C1_OrderPreserved ==
    status = "returned" =>
        /\ IsSubsequence(TaskIds, PlanIds)
        /\ \A i \in DOMAIN plan_nodes :
              Cardinality(TasksOfStep(i)) = IF OptionalSkipped(i) THEN 0 ELSE 1

\* A three-step plan returned with its middle step skipped.
C1_Witness ==
    /\ status = "returned"
    /\ Len(plan_nodes) = 3
    /\ TaskIds = <<plan_nodes[1].id, plan_nodes[3].id>>
    /\ OptionalSkipped(2)

\* C2 as stated: every returned task whose step has depends_on = d is preceded
\* in the output by a task with step id d.
C2_DependencyRespected ==
    status = "returned" =>
        \A j \in DOMAIN tasks :
            LET d == StepDependsOn(StepOfTask(j))
            IN  d # NONE => \E k \in 1..(j - 1) : tasks[k].plan_node_id = d

\* C2 amended: every returned task whose step has depends_on = d is preceded
\* by a task with step id d, or is the undispatched failed task of a missing
\* dependency: no rows and extra.error = "Dependency d not found".
C2_DependencyRespectedOrFailed ==
    status = "returned" =>
        \A j \in DOMAIN tasks :
            LET d == StepDependsOn(StepOfTask(j))
            IN  d # NONE =>
                  \/ \E k \in 1..(j - 1) : tasks[k].plan_node_id = d
                  \/ /\ tasks[j].result = <<>>
                     /\ tasks[j].meta.extra = DependencyError(d)
                     /\ \A c \in DOMAIN dispatched : dispatched[c].step # StepOfTask(j)

\* A returned plan with a dispatched task after the task it depends on, and a
\* failed task of a missing dependency.
C2_Witness ==
    /\ status = "returned"
    /\ \E j \in DOMAIN tasks :
          /\ StepDependsOn(StepOfTask(j)) # NONE
          /\ tasks[j].result # <<>>
          /\ \E k \in 1..(j - 1) : tasks[k].plan_node_id = StepDependsOn(StepOfTask(j))
    /\ \E j \in DOMAIN tasks :
          /\ StepDependsOn(StepOfTask(j)) # NONE
          /\ tasks[j].meta.extra = DependencyError(StepDependsOn(StepOfTask(j)))

\* The loop is at a step with depends_on set.
AtDependentStep == status = "running" /\ idx <= Len(plan_nodes) /\ StepDependsOn(idx) # NONE
DepTaskAbsent == StepDependsOn(idx) \notin DOMAIN results_by_id
DepTaskEmpty ==
    /\ StepDependsOn(idx) \in DOMAIN results_by_id
    /\ results_by_id[StepDependsOn(idx)].result = <<>>

\* The step is answered by a failed "Dependency <id> not found" task, without
\* a dispatch, and the loop goes on.
FailsOnDependency ==
    /\ Len(tasks') = Len(tasks) + 1
    /\ SubSeq(tasks', 1, Len(tasks)) = tasks
    /\ tasks'[Len(tasks')].plan_node_id = plan_nodes[idx].id
    /\ tasks'[Len(tasks')].result = <<>>
    /\ tasks'[Len(tasks')].meta.extra = DependencyError(StepDependsOn(idx))
    /\ dispatched' = dispatched
    /\ idx' = idx + 1
    /\ status' = "running"

\* C3 as stated: a required step whose dependency task is absent or has zero
\* rows gets a failed task, no dispatch, and the loop continues.
C3_RequiredFailsOnAbsentOrEmpty ==
    [][(AtDependentStep /\ ~StepOptional(idx) /\ (DepTaskAbsent \/ DepTaskEmpty))
            => FailsOnDependency]_vars

\* C3 amended: a required step whose dependency task is absent from the
\* results gets a failed task, no dispatch, and the loop continues.
C3_RequiredFailsOnAbsent ==
    [][(AtDependentStep /\ ~StepOptional(idx) /\ DepTaskAbsent)
            => FailsOnDependency]_vars

\* A required step has been failed for its missing dependency and the plan
\* has gone on to return.
C3_Witness ==
    /\ status = "returned"
    /\ \E i \in DOMAIN plan_nodes :
          /\ ~StepOptional(i)
          /\ StepDependsOn(i) # NONE
          /\ \E j \in TasksOfStep(i) : tasks[j].meta.extra = DependencyError(StepDependsOn(i))
          /\ i < Len(plan_nodes)

\* C4: an optional step whose dependency task is absent or has zero rows gets
\* no task, no dispatch and no entry in results_by_id, and the loop continues.
C4_OptionalSkipped ==
    [][(AtDependentStep /\ StepOptional(idx) /\ (DepTaskAbsent \/ DepTaskEmpty))
            => /\ tasks' = tasks
               /\ dispatched' = dispatched
               /\ results_by_id' = results_by_id
               /\ idx' = idx + 1
               /\ status' = "running"]_vars

\* An optional step was passed over because its dependency returned no rows,
\* and a later step has been processed.
C4_Witness ==
    \E i \in 1..(idx - 2) :
        /\ StepOptional(i)
        /\ StepDependsOn(i) \in DOMAIN results_by_id
        /\ results_by_id[StepDependsOn(i)].result = <<>>
        /\ \E k \in 1..(i - 1) : plan_nodes[k].id = StepDependsOn(i)
        /\ TasksOfStep(i) = {}
        /\ plan_nodes[i].id \notin DOMAIN results_by_id

\* C5: a step whose dispatch raised has a task with no rows and the message of
\* the exception in extra.error (for an unregistered source "MCP <id> not
\* registered"); the raise never ends the run, which goes on to the later steps.
C5_DispatchFailureRecorded ==
    /\ \A i \in DOMAIN outcome :
          outcome[i] = "dispatch_failed" =>
              /\ \E j \in TasksOfStep(i) :
                    /\ tasks[j].result = <<>>
                    /\ DOMAIN tasks[j].meta.extra = {"error"}
                    /\ tasks[j].meta.extra.error \in
                          (IF plan_nodes[i].preferred \in DOMAIN MCP_REGISTRY
                           THEN TransportErrors
                           ELSE {<<"MCP ", plan_nodes[i].preferred, " not registered">>})
              /\ (i = Len(outcome) => status # "raised" /\ idx = i + 1)
    /\ \A c \in DOMAIN dispatched :
          (dispatched[c].mcp_id \notin DOMAIN MCP_REGISTRY /\ dispatched[c].step <= Len(outcome))
              => outcome[dispatched[c].step] = "dispatch_failed"
    /\ status = "returned" => Len(outcome) = Len(plan_nodes)

\* A dispatch to an unregistered source failed and a later step completed with rows.
C5_Witness ==
    \E i \in DOMAIN outcome :
        /\ outcome[i] = "dispatch_failed"
        /\ plan_nodes[i].preferred \notin DOMAIN MCP_REGISTRY
        /\ \E k \in (i + 1)..Len(outcome) :
              outcome[k] = "completed" /\ \E j \in TasksOfStep(k) : tasks[j].result # <<>>

(***************************************************************************)
(* Properties of the reference resolution                                  *)
(***************************************************************************)
EndsWithFrom(key) == key # <<>> /\ key[Len(key)] = "_from"
TargetKey(key) == SubSeq(key, 1, Len(key) - 1)

\* "<p>.<f1>...<fn>" with n >= 1: atoms separated by single dots.
WellFormedRef(ref) ==
    /\ ref.t = "str"
    /\ Len(ref.s) >= 3
    /\ Len(ref.s) % 2 = 1
    /\ \A n \in 1..Len(ref.s) : (ref.s[n] = ".") <=> (n % 2 = 0)
RefStep(ref) == ref.s[1]
RefFields(ref) == [n \in 1..((Len(ref.s) - 1) \div 2) |-> ref.s[2 * n + 1]]

\* The tasks of step id p that step i can see: those of the earlier steps.
ProducerTasks(i, p) ==
    {j \in DOMAIN tasks :
        tasks[j].plan_node_id = p /\ \E k \in 1..(i - 1) : plan_nodes[k].id = p}

\* The value under a path of field names in a JSON object, if the path exists.
RECURSIVE PathLookup(_, _)
PathLookup(v, fields) ==
    IF fields = <<>> THEN [found |-> TRUE, value |-> v]
    ELSE IF v.t = "dict" /\ Head(fields) \in DOMAIN v.d
         THEN PathLookup(v.d[Head(fields)], Tail(fields))
         ELSE [found |-> FALSE, value |-> Null]

\* The path of ref exists in the first row of the task of its step, seen from step i.
RefFound(i, ref) ==
    /\ WellFormedRef(ref)
    /\ \E j \in ProducerTasks(i, RefStep(ref)) :
          tasks[j].result # <<>> /\ PathLookup(tasks[j].result[1], RefFields(ref)).found
RefValue(i, ref) ==
    LET j == CHOOSE j \in ProducerTasks(i, RefStep(ref)) : TRUE
    IN  PathLookup(tasks[j].result[1], RefFields(ref)).value

FromKeys(i) == {key \in DOMAIN StepJson(i).input : EndsWithFrom(key)}

\* C6 as stated: a K_from reference whose path exists in the first row of the
\* earlier step with value V arrives in the dispatched payload as K = V,
\* without K_from.
C6_ReferenceResolved ==
    \A c \in DOMAIN dispatched :
        \A key \in FromKeys(dispatched[c].step) :
            LET i == dispatched[c].step
                ref == StepJson(i).input[key]
            IN  RefFound(i, ref) =>
                  /\ key \notin DOMAIN dispatched[c].payload
                  /\ TargetKey(key) \in DOMAIN dispatched[c].payload
                  /\ dispatched[c].payload[TargetKey(key)] = RefValue(i, ref)

\* C6 amended: the same for a value V that is not null.
C6_NonNullReferenceResolved ==
    \A c \in DOMAIN dispatched :
        \A key \in FromKeys(dispatched[c].step) :
            LET i == dispatched[c].step
                ref == StepJson(i).input[key]
            IN  (RefFound(i, ref) /\ RefValue(i, ref) # Null) =>
                  /\ key \notin DOMAIN dispatched[c].payload
                  /\ TargetKey(key) \in DOMAIN dispatched[c].payload
                  /\ dispatched[c].payload[TargetKey(key)] = RefValue(i, ref)

\* A step was dispatched with the value found under a two-field path.
C6_Witness ==
    \E c \in DOMAIN dispatched :
        \E key \in FromKeys(dispatched[c].step) :
            LET i == dispatched[c].step
                ref == StepJson(i).input[key]
            IN  /\ RefFound(i, ref)
                /\ Len(RefFields(ref)) = 2
                /\ RefValue(i, ref) = Vec("V2")
                /\ dispatched[c].payload[TargetKey(key)] = Vec("V2")

\* The reference cannot be resolved: not a well-formed reference string,
\* unknown step, task without rows, or a path that is missing.
Unresolvable(i, ref) ==
    \/ ~WellFormedRef(ref)
    \/ ~RefFound(i, ref)
    \/ RefValue(i, ref) = Null

\* C7: a step that reaches reference resolution with an unresolvable K_from is
\* still dispatched, with K_from omitted and no value added under K; the run
\* is not ended by it.
C7_UnresolvedReferenceOmitted ==
    \A i \in DOMAIN outcome :
        outcome[i] \notin {"skipped", "dependency_missing"} =>
            \A key \in FromKeys(i) :
                Unresolvable(i, StepJson(i).input[key]) =>
                    \E c \in DOMAIN dispatched :
                        /\ dispatched[c].step = i
                        /\ key \notin DOMAIN dispatched[c].payload
                        /\ TargetKey(key) \notin DOMAIN dispatched[c].payload

(***************************************************************************)
(* Properties of the lazy catalog                                          *)
(***************************************************************************)
\* C8: over all requests, get_schema is called at most once per registered
\* source: concurrent first requests share one population pass.
C8_OnePopulationPass ==
    \A id \in DOMAIN MCP_REGISTRY : get_schema_calls[id] <= 1

\* C9: no request builds its sources descriptor while a population pass of
\* another request is still in progress.
C9_NoPlanDuringPopulation ==
    [][\A r \in Requests :
          (rpc[r] # "planned" /\ rpc'[r] = "planned")
              => \A q \in Requests \ {r} : rpc[q] # "fetching"]_vars

\* The get_schema call to the source has returned a SourceSchema body.
SchemaReturned(id) ==
    id \in answered /\ {"mcp_id", "db_type"} \subseteq DOMAIN adapter[id]

\* C10: after a population pass, every source whose get_schema call returned
\* a schema has a catalog entry under its registry id, with the db_type of
\* its response.
C10_SchemaFidelity ==
    SCHEMAS_LOADED =>
        \A id \in DOMAIN MCP_REGISTRY :
            SchemaReturned(id) =>
                id \in DOMAIN schemas /\ schemas[id].db_type = adapter[id].db_type

\* The schema a source returned is in the catalog.
SchemaLoaded(index, id) ==
    \E k \in DOMAIN index : index[k] = source_schema_from_dict(adapter[id])

\* The request has gone through one iteration of the loop over the registry.
FetchStep(r) == rpc[r] = "fetching" /\ (rpos'[r] # rpos[r] \/ rpc'[r] # rpc[r])

\* C11: whatever get_schema does for one source (returns a schema, returns a
\* body that cannot be parsed, raises), the pass goes on to the next source and
\* after the last one returns to plan(), which builds its sources from the
\* catalog; no schema already loaded is lost, and the schema of every source
\* that returned one is in the catalog.
C11_PassSurvivesFailures ==
    /\ [](\A id \in answered :
              ~source_schema_raises(adapter[id]) => SchemaLoaded(schemas, id))
    /\ [][\A r \in Requests :
            FetchStep(r) =>
                /\ \A k \in DOMAIN schemas : k \in DOMAIN schemas' /\ schemas'[k] = schemas[k]
                /\ IF rpos[r] < Len(RegistryKeys)
                   THEN rpc'[r] = "fetching" /\ rpos'[r] = rpos[r] + 1
                   ELSE /\ rpc'[r] = "planned"
                        /\ SCHEMAS_LOADED'
                        /\ rsources'[r] = build_sources_for_llm(schemas')]_vars

\* A request has built its sources after a pass in which the first source
\* never answered and the last one did.
C11_Witness ==
    \E r \in Requests :
        /\ rpc[r] = "planned"
        /\ get_schema_calls["sql_customers"] = 1
        /\ "sql_customers" \notin answered
        /\ "vector_customers" \in answered
        /\ "vector_customers" \in DOMAIN rsources[r]

(***************************************************************************)
(* Properties of the planner                                               *)
(***************************************************************************)
\* The tools allowed for a db_type.
AllowedTools(t) ==
    CASE t = "sql"    -> {"execute_sql", "get_schema"}
      [] t = "nosql"  -> {"find", "get_schema"}
      [] t = "graph"  -> {"traverse", "get_schema"}
      [] t = "vector" -> {"search", "get_schema"}
      [] OTHER        -> {"get_schema"}

\* The step names a registered source and a tool allowed for its db_type.
StepValid(s) ==
    /\ {"mcp_id", "db_type", "tool"} \subseteq DOMAIN s
    /\ s.mcp_id \in DOMAIN MCP_REGISTRY
    /\ s.tool \in AllowedTools(s.db_type)

PlannedSteps == [i \in DOMAIN plan_nodes |-> plan_nodes[i].subquery_nl]

\* C12: the plan that plan() returns holds exactly the proposed steps that
\* name a registered source and a tool allowed for their db_type, in order:
\* the steps that violate either condition are dropped, the others are kept.
C12_OnlyValidStepsPlanned ==
    status = "planned" => PlannedSteps = SelectSeq(raw_steps, StepValid)

\* C13: with the LLM client unavailable, plan() raises no error to its caller:
\* it falls back to the heuristic plan and returns.
C13_FallbackNeverRaises ==
    client = "unavailable" => \A r \in Requests : rpc[r] # "raised"

(***************************************************************************)
(* Properties of fuse                                                      *)
(***************************************************************************)
EnvelopeKeys ==
    {"customer", "customers", "recent_orders", "referrals", "similar_customers",
     "explain", "provenance"}
ListBuckets == {"customers", "recent_orders", "referrals", "similar_customers"}
Buckets == {"customer"} \cup ListBuckets

\* The output_alias the plan gave to the step of task j.
AliasOf(j) == Get(StepJson(StepOfTask(j)), "output_alias", NONE)

Range(seq) == {seq[i] : i \in DOMAIN seq}

\* C14: what fuse returns has exactly the seven keys, customer is an object
\* and the four buckets and explain are lists.
C14_EnvelopeShape ==
    status = "fused" =>
        /\ DOMAIN fused = EnvelopeKeys
        /\ fused.customer.t = "dict"
        /\ \A k \in ListBuckets \cup {"explain"} : fused[k].t = "list"
        /\ \A k \in ListBuckets : \A i \in DOMAIN fused[k].items : fused[k].items[i].t = "dict"

\* fuse returned early with the list of customers while a vector task had rows.
C14_Witness ==
    /\ status = "fused"
    /\ is_list_customers(nl_query)
    /\ fused.customers.items # <<>>
    /\ \E j \in DOMAIN tasks : IsVectorTask(tasks[j]) /\ tasks[j].result # <<>>
    /\ fused.similar_customers.items = <<>>

\* C15: outside the list-customers early return, the rows of a task whose
\* step has a canonical list alias are in the bucket of that alias, and the
\* customer is the first row of the first task with alias customer that has
\* rows, whatever the source and source_type of the task.
C15_AliasRouting ==
    (status = "fused" /\ ~is_list_customers(nl_query)) =>
        \A j \in DOMAIN tasks :
            /\ AliasOf(j) \in ListBuckets =>
                  Range(tasks[j].result) \subseteq Range(fused[AliasOf(j)].items)
            /\ (/\ AliasOf(j) = "customer"
                /\ tasks[j].result # <<>>
                /\ \A k \in 1..(j - 1) : AliasOf(k) = "customer" => tasks[k].result = <<>>)
                    => fused.customer = tasks[j].result[1]

\* Task j is a candidate for the list of customers: alias customers, or SQL.
ListCandidate(j) == AliasOf(j) = "customers" \/ IsSqlTask(tasks[j])

\* C16: for a list-customers query with a task of alias customers or an SQL
\* task, customers holds the rows of such a task, explain is one entry naming
\* its source, provenance has the customers entry only and the other buckets
\* are empty.
C16_ListCustomersEarlyReturn ==
    (status = "fused" /\ is_list_customers(nl_query)
            /\ \E j \in DOMAIN tasks : ListCandidate(j)) =>
        /\ \E j \in DOMAIN tasks :
              /\ ListCandidate(j)
              /\ fused.customers.items = tasks[j].result
              /\ Len(fused.explain.items) = 1
              /\ Contains(fused.explain.items[1], <<tasks[j].source>>)
        /\ DOMAIN fused.provenance.d = {"customers"}
        /\ fused.customer = Dict(EmptyDict)
        /\ \A k \in ListBuckets \ {"customers"} : fused[k].items = <<>>

\* The entries {source, meta} under provenance.
ProvenanceEntries ==
    UNION {IF k \in ListBuckets \ {"customers"}
           THEN Range(fused.provenance.d[k])
           ELSE {fused.provenance.d[k]} : k \in DOMAIN fused.provenance.d}

\* The error of task j is in an explain entry, or in the meta of a provenance
\* entry of its source.
ErrorExposed(j) ==
    \/ \E i \in DOMAIN fused.explain.items :
            Contains(fused.explain.items[i], tasks[j].meta.extra.error)
    \/ \E e \in ProvenanceEntries :
            /\ {"source", "meta"} \subseteq DOMAIN e
            /\ e.source = tasks[j].source
            /\ "error" \in DOMAIN e.meta
            /\ e.meta.error = tasks[j].meta.extra.error

\* C17: the error of every task that carries one in meta.extra.error is in
\* explain or under provenance in what fuse returns.
C17_ErrorsSurfaced ==
    status = "fused" =>
        \A j \in DOMAIN tasks :
            "error" \in DOMAIN tasks[j].meta.extra => ErrorExposed(j)

\* C18: no failure of a step aborts the request: execute_plan never leaves
\* with an exception, whatever the plan, the failures and the bodies.
C18_NoStepAbortsRequest == status # "raised"

\* Request r has finished its part of plan() with nothing in its descriptor
\* of the sources.
PlannedWithoutSources(r) ==
    /\ rpc[r] \in {"planned", "raised", "complete"}
    /\ DOMAIN rsources[r] = {}

NonEmptyBuckets == {k \in Buckets : Truthy(fused[k])}

\* C20: explain has at least as many entries as there are non-empty buckets.
C20_ExplainCoversBuckets ==
    status = "fused" => Len(fused.explain.items) >= Cardinality(NonEmptyBuckets)

\* The customer was inferred from the orders: two buckets, two entries.
C20_Witness ==
    /\ status = "fused"
    /\ NonEmptyBuckets = {"customer", "recent_orders"}
    /\ fused.customer = Dict([id |-> Str(<<"cust001">>)])
    /\ Len(fused.explain.items) = 2

(***************************************************************************)
(* Further properties of plan() and of the catalog                         *)
(***************************************************************************)
\* C21: in the plan that plan() returns, the depends_on of a step, when set,
\* is the id of an earlier step of that plan.
C21_DependsOnEarlierStep ==
    status = "planned" =>
        \A i \in DOMAIN plan_nodes :
            plan_nodes[i].depends_on # NONE =>
                \E k \in 1..(i - 1) : plan_nodes[k].id = plan_nodes[i].depends_on

\* The raw step is one of _heuristic_plan.
IsHeuristicStep(s) == "intent" \in DOMAIN s

\* C22: every step of the heuristic plan is in the plan that plan() returns,
\* as a step on a registered source; for the list of all customers it is the
\* SQL step that selects id, name, email.
C22_HeuristicStepsRegistered ==
    status = "planned" =>
        \A i \in DOMAIN raw_steps :
            IsHeuristicStep(raw_steps[i]) =>
                \E k \in DOMAIN plan_nodes :
                    /\ plan_nodes[k].id = raw_steps[i].id
                    /\ plan_nodes[k].preferred \in DOMAIN MCP_REGISTRY
                    /\ plan_nodes[k].capability = "query.sql"

\* A plan() call is over and the catalog is loaded and not empty.
CatalogLoaded ==
    /\ SCHEMAS_LOADED
    /\ DOMAIN schemas # {}
    /\ \E r \in Requests : rpc[r] \in {"raised", "complete"}

\* C23: once a plan() call is over with a loaded, non-empty catalog, the
\* catalog stays as it is and no plan() call that starts afterwards calls
\* get_schema.
C23_CatalogFrozenOnceLoaded ==
    [][CatalogLoaded =>
            /\ schemas' = schemas
            /\ \A q \in Requests : rpc[q] = "idle" => rpc'[q] # "fetching"]_vars

(***************************************************************************)
(* Further properties of execute_plan                                      *)
(***************************************************************************)
\* C24: the steps are dispatched in plan order and each at most once, and a
\* step is dispatched only when every earlier step has been gone through and
\* every earlier step that was not skipped has its task.
C24_SequentialDispatch ==
    /\ [](\A c, e \in DOMAIN dispatched :
              c < e => dispatched[c].step < dispatched[e].step)
    /\ [][dispatched' # dispatched =>
            /\ Len(dispatched') = Len(dispatched) + 1
            /\ SubSeq(dispatched', 1, Len(dispatched)) = dispatched
            /\ dispatched'[Len(dispatched')].step = idx
            /\ Len(outcome) = idx - 1
            /\ \A k \in 1..(idx - 1) :
                  outcome[k] # "skipped" => Cardinality(TasksOfStep(k)) = 1]_vars

\* The first dispatch failed, the second step was skipped for it and the third
\* step was dispatched: two calls, none for the failed step again.
C24_Witness ==
    /\ status = "returned"
    /\ outcome = <<"dispatch_failed", "skipped", "completed">>
    /\ Len(dispatched) = 2
    /\ dispatched[1].step = 1
    /\ dispatched[2].step = 3

\* Step k was skipped, or failed, or returned no rows.
WithoutRows(k) ==
    \/ outcome[k] \in {"skipped", "dispatch_failed", "dependency_missing"}
    \/ outcome[k] = "completed" /\ \A j \in TasksOfStep(k) : tasks[j].result = <<>>

\* C29: an optional step that depends on a step that was skipped, failed or
\* returned no rows is skipped without a dispatch and without a task, and so
\* the steps that depend on it in turn.
C29_SkipPropagates ==
    \A i \in DOMAIN outcome :
        \A k \in 1..(i - 1) :
            (StepOptional(i) /\ StepDependsOn(i) = plan_nodes[k].id /\ WithoutRows(k)) =>
                /\ outcome[i] = "skipped"
                /\ TasksOfStep(i) = {}
                /\ plan_nodes[i].id \notin DOMAIN results_by_id
                /\ \A c \in DOMAIN dispatched : dispatched[c].step # i

\* A chain: the first step failed, the second was skipped for it and the third
\* was skipped for the second.
C29_Witness ==
    /\ status = "returned"
    /\ outcome = <<"dispatch_failed", "skipped", "skipped">>
    /\ StepDependsOn(2) = plan_nodes[1].id
    /\ StepDependsOn(3) = plan_nodes[2].id
    /\ StepOptional(3)
    /\ Len(tasks) = 1
    /\ Len(dispatched) = 1

(***************************************************************************)
(* Further properties of fuse                                              *)
(***************************************************************************)
\* fuse left through the list-customers return.
EarlyReturn == is_list_customers(nl_query) /\ sql_tasks(tasks) # <<>>

\* The tasks fuse selects for a list bucket, in the order of the input.
ContributingTasks(b) ==
    CASE b = "recent_orders"     -> SelectSeq(tasks, IsNosqlTask)
      [] b = "referrals"         -> SelectSeq(tasks, IsGraphTask)
      [] b = "similar_customers" -> SelectSeq(tasks, IsVectorTask)

\* The rows of the tasks ts one after the other.
RECURSIVE FlatRows(_)
FlatRows(ts) ==
    IF ts = <<>> THEN <<>>
    ELSE FlatRows(SubSeq(ts, 1, Len(ts) - 1)) \o ts[Len(ts)].result

\* C25: outside the early return each of recent_orders, referrals and
\* similar_customers is the rows of its contributing tasks in input order, and
\* the provenance of a populated bucket has one {source, meta} per contributing
\* task in that order.
C25_BucketsInEncounterOrder ==
    (status = "fused" /\ ~EarlyReturn) =>
        \A b \in ListBuckets \ {"customers"} :
            /\ fused[b].items = FlatRows(ContributingTasks(b))
            /\ fused[b].items # <<>> =>
                  /\ b \in DOMAIN fused.provenance.d
                  /\ fused.provenance.d[b] =
                        [i \in DOMAIN ContributingTasks(b) |->
                            [source |-> ContributingTasks(b)[i].source,
                             meta   |-> ContributingTasks(b)[i].meta.extra]]

\* Two document sources with different rows: the orders are in the order of
\* the tasks and the provenance has an entry for each.
C25_Witness ==
    /\ status = "fused"
    /\ ~EarlyReturn
    /\ fused.recent_orders.items = <<Order1, Order4>>
    /\ Len(fused.provenance.d["recent_orders"]) = 2
    /\ fused.provenance.d["recent_orders"][1].source = "orders_mongo"

\* The first row of the first SQL task, when there is one.
PrimaryFound == sql_tasks(tasks) # <<>> /\ sql_tasks(tasks)[1].result # <<>>

InferenceNote == <<"Inferred primary customer from recent orders">>
NoteGiven == \E i \in DOMAIN fused.explain.items : fused.explain.items[i] = InferenceNote

\* customer_id of the order, or its cust_id when customer_id is absent.
OrderCustomer(o) ==
    IF "customer_id" \in DOMAIN o.d THEN o.d.customer_id
    ELSE IF "cust_id" \in DOMAIN o.d THEN o.d.cust_id
    ELSE Null

\* customer, explain and provenance after the inference from the first order.
Inferred ==
    /\ fused.customer = Dict([id |-> OrderCustomer(fused.recent_orders.items[1])])
    /\ fused.explain.items[Len(fused.explain.items)] = InferenceNote
    /\ "customer" \in DOMAIN fused.provenance.d
    /\ fused.provenance.d["customer"] =
            [inferred_from |-> "orders", sample_order |-> fused.recent_orders.items[1]]

NotInferred ==
    /\ ~NoteGiven
    /\ fused.customer =
            (IF PrimaryFound THEN sql_tasks(tasks)[1].result[1] ELSE Dict(EmptyDict))

\* C26 as stated: without a primary customer and with recent orders the
\* customer is inferred from the first order; with a primary customer it is not.
C26_CustomerInferred ==
    (status = "fused" /\ ~EarlyReturn) =>
        IF ~PrimaryFound /\ fused.recent_orders.items # <<>>
        THEN Inferred
        ELSE NotInferred

\* C26 amended: the inference is made only when the first order has a
\* customer_id or a cust_id; otherwise customer stays empty and there is no note.
C26_CustomerInferredFromId ==
    (status = "fused" /\ ~EarlyReturn) =>
        IF /\ ~PrimaryFound
           /\ fused.recent_orders.items # <<>>
           /\ OrderCustomer(fused.recent_orders.items[1]) # Null
        THEN Inferred
        ELSE NotInferred

\* The customer was inferred from the cust_id of the first order.
C26_Witness ==
    /\ status = "fused"
    /\ ~PrimaryFound
    /\ fused.recent_orders.items # <<>>
    /\ fused.recent_orders.items[1] = Order2
    /\ fused.customer = Dict([id |-> Str(<<"cust002">>)])
    /\ NoteGiven

\* The place of an explain entry in the fixed order.
EntryRank(e) ==
    CASE e[1] \in {"Customers from ", "Customer from "} -> 1
      [] e[1] = "Orders from "                          -> 2
      [] e[1] = "Referrals from "                       -> 3
      [] e[1] = "Similar customers from "               -> 4
      [] e = InferenceNote                              -> 5
      [] OTHER                                          -> 0

\* C27: the entries of explain are in the order customers/customer, orders,
\* referrals, similar customers, inference note, each at most once.
C27_ExplainOrder ==
    status = "fused" =>
        /\ \A i \in DOMAIN fused.explain.items : EntryRank(fused.explain.items[i]) > 0
        /\ \A i, k \in DOMAIN fused.explain.items :
              i < k => EntryRank(fused.explain.items[i]) < EntryRank(fused.explain.items[k])

\* The similar customers came first in the input and last in explain.
C27_Witness ==
    /\ status = "fused"
    /\ Len(tasks) = 2
    /\ IsVectorTask(tasks[1]) /\ tasks[1].result # <<>>
    /\ IsNosqlTask(tasks[2]) /\ ~IsSqlTask(tasks[2])
    /\ Len(fused.explain.items) = 3
    /\ EntryRank(fused.explain.items[1]) = 2
    /\ EntryRank(fused.explain.items[2]) = 4
    /\ fused.explain.items[3] = InferenceNote

\* The source ids in sorted order.
SortedSourceIds ==
    <<"graph_referrals", "nosql_orders", "orders_mongo", "sql_archive", "sql_customers",
      "vector_customers">>
SourceRank(id) == CHOOSE n \in DOMAIN SortedSourceIds : SortedSourceIds[n] = id

\* The source ids an explain entry "<label><s1>, <s2>, ..." names.
EntrySources(e) == [n \in 1..(Len(e) \div 2) |-> e[2 * n]]

\* C28: the entry of a bucket names each contributing source once, in sorted
\* order.
C28_SourcesSorted ==
    (status = "fused" /\ ~EarlyReturn) =>
        \A i \in DOMAIN fused.explain.items :
            LET e == fused.explain.items[i]
                b == CASE EntryRank(e) = 2 -> "recent_orders"
                       [] EntryRank(e) = 3 -> "referrals"
                       [] OTHER            -> "similar_customers"
            IN  EntryRank(e) \in {2, 3, 4} =>
                  /\ Range(EntrySources(e)) =
                        {ContributingTasks(b)[n].source : n \in DOMAIN ContributingTasks(b)}
                  /\ \A n, m \in DOMAIN EntrySources(e) :
                        n < m => SourceRank(EntrySources(e)[n]) < SourceRank(EntrySources(e)[m])

\* The rows of task j are in bucket b.
RowsInBucket(j, b) ==
    IF b = "customer" THEN fused.customer \in Range(tasks[j].result)
    ELSE Range(tasks[j].result) \cap Range(fused[b].items) # {}

\* C30: the rows of one task are in at most one of the buckets.
C30_OneBucketPerTask ==
    status = "fused" =>
        \A j \in DOMAIN tasks : Cardinality({b \in Buckets : RowsInBucket(j, b)}) <= 1

====
